---- MODULE Spec2Model ----
(***************************************************************************)
(* Url2Markdown.execute (n8n node): for every input item, validate the     *)
(* url, fetch it under a timeout, extract the article (Readability),       *)
(* convert it to Markdown (Turndown with the node's override rules),       *)
(* optionally prepend YAML frontmatter, and push a result record.          *)
(*                                                                         *)
(* Strings are sequences of characters; a character is a one-element       *)
(* string, and a fixed literal of the source that holds no quote, newline  *)
(* or bracket is kept as one token.  An optional value (undefined / null   *)
(* in the source) is <<>> when absent and <<v>> when present.              *)
(***************************************************************************)
EXTENDS Integers, Sequences, FiniteSets, TLC

\* ---- bounds of the model ----
MaxItems == 2        \* input items per execution
MaxMetaLen == 1      \* characters per metadata string
MaxNodes == 3        \* nodes of an article content tree
MaxOverrun == 1      \* seconds observed past a deadline

\* ---- program constants ----
DefaultTimeout == 30

\* ---- characters and tokens ----
DQ == "\""
BS == "\\"
NL == "\n"
SP == " "
LB == "["
RB == "]"
LP == "("
RP == ")"
Bang == "!"
Dashes == "---"
ImgLabel == "gazo:"          \* the literal label of the alt-text placeholder
DateTok == "2026-01-01T00:00:00.000Z"

None == <<>>
Some(v) == <<v>>

\* Mutant: only null and undefined count as missing, the empty string does not.
NotNull(o) == o # None

\* JavaScript truthiness of a string | null | undefined value
Truthy(o) == o # None /\ o[1] # <<>>

\* ---- string helpers (String.prototype.replace with /c/g, join, trim) ----
RECURSIVE ReplaceAll(_, _, _)
ReplaceAll(s, c, r) ==
    IF s = <<>> THEN <<>>
    ELSE (IF Head(s) = c THEN r ELSE <<Head(s)>>) \o ReplaceAll(Tail(s), c, r)

RECURSIVE Join(_, _)
Join(lines, sep) ==
    IF lines = <<>> THEN <<>>
    ELSE IF Len(lines) = 1 THEN lines[1]
    ELSE lines[1] \o <<sep>> \o Join(Tail(lines), sep)

RECURSIVE TrimStart(_, _)
TrimStart(s, ws) ==
    IF s # <<>> /\ Head(s) \in ws THEN TrimStart(Tail(s), ws) ELSE s

RECURSIVE TrimEnd(_, _)
TrimEnd(s, ws) ==
    IF s # <<>> /\ s[Len(s)] \in ws THEN TrimEnd(SubSeq(s, 1, Len(s) - 1), ws) ELSE s

Trim(s) == TrimEnd(TrimStart(s, {SP, NL}), {SP, NL})

\* ---- option defaults (execute, the reads of `options`) ----
TimeoutOf(options) ==
    IF options.timeout # None /\ options.timeout[1] # 0
    THEN options.timeout[1] ELSE DefaultTimeout
IncludeLinksOf(options) == options.includeLinks # Some(FALSE)
ImageHandlingOf(options) ==
    IF options.imageHandling # None THEN options.imageHandling[1] ELSE "include"
IncludeFrontmatterOf(options) == options.includeFrontmatter = Some(TRUE)

\* ---- article content tree ----
TextNode(t) ==
    [tag |-> "text", text |-> t, alt |-> None, src |-> <<>>, href |-> None, kids |-> <<>>]
ImgNode(alt, src) ==
    [tag |-> "img", text |-> <<>>, alt |-> alt, src |-> src, href |-> None, kids |-> <<>>]
ANode(href, kids) ==
    [tag |-> "a", text |-> <<>>, alt |-> None, src |-> <<>>, href |-> href, kids |-> kids]

\* ---- Turndown: the rule table and the tree walk ----
\* The rules the node adds; addRule puts a rule in front of those added before.
AddedRules(includeLinks, imageHandling) ==
    LET links == IF ~includeLinks THEN <<"removeLinks">> ELSE <<>>
        images == IF imageHandling = "remove" THEN <<"removeImages">>
                  ELSE IF imageHandling = "altText" THEN <<"imageAltText">>
                  ELSE <<>>
    IN  images \o links

\* Turndown's own rules for images and links.
CommonMarkRules == <<"image", "inlineLink">>

\* Mutant: the library's rules are consulted before the added ones.
RuleTableDefaultsFirst(includeLinks, imageHandling) ==
    CommonMarkRules \o AddedRules(includeLinks, imageHandling)

\* Added rules are consulted first, then the default table.
RuleTable(includeLinks, imageHandling) ==
    AddedRules(includeLinks, imageHandling) \o CommonMarkRules

Filter(rule, node) ==
    CASE rule = "removeLinks"  -> node.tag = "a"
      [] rule = "removeImages" -> node.tag = "img"
      [] rule = "imageAltText" -> node.tag = "img"
      [] rule = "image"        -> node.tag = "img"
      [] rule = "inlineLink"   -> node.tag = "a" /\ Truthy(node.href)
      [] OTHER                 -> FALSE

RECURSIVE RuleFor(_, _)
RuleFor(node, table) ==
    IF table = <<>> THEN "default"
    ELSE IF Filter(Head(table), node) THEN Head(table)
    ELSE RuleFor(node, Tail(table))

\* Mutant: the placeholder carries the alt text as written, and any non-empty alt counts.
ImageAltTextUntrimmed(node) ==
    IF Truthy(node.alt)
    THEN <<LB, ImgLabel, SP>> \o node.alt[1] \o <<RB>>
    ELSE <<LB, ImgLabel, RB>>

\* replacement of the rule imageAltText
ImageAltText(node) ==
    IF Truthy(node.alt) /\ Trim(node.alt[1]) # <<>>
    THEN <<LB, ImgLabel, SP>> \o Trim(node.alt[1]) \o <<RB>>
    ELSE <<LB, ImgLabel, RB>>

\* replacement of Turndown's default image rule
DefaultImage(node) ==
    IF node.src = <<>> THEN <<>>
    ELSE <<Bang, LB>> \o (IF node.alt # None THEN node.alt[1] ELSE <<>>)
         \o <<RB, LP>> \o node.src \o <<RP>>

\* replacement of Turndown's default link rule
DefaultLink(content, node) ==
    <<LB>> \o content \o <<RB, LP>> \o node.href[1] \o <<RP>>

Replacement(rule, content, node) ==
    CASE rule = "removeLinks"  -> content
      [] rule = "removeImages" -> <<>>
      [] rule = "imageAltText" -> ImageAltText(node)
      [] rule = "image"        -> DefaultImage(node)
      [] rule = "inlineLink"   -> DefaultLink(content, node)
      [] OTHER                 -> content

RECURSIVE Process(_, _)
Process(nodes, table) ==
    IF nodes = <<>> THEN <<>>
    ELSE LET node == Head(nodes)
             out  == IF node.tag = "text" THEN node.text
                     ELSE Replacement(RuleFor(node, table), Process(node.kids, table), node)
         IN  out \o Process(Tail(nodes), table)

\* turndown(): walk the tree, then strip leading newlines and trailing whitespace
Turndown(content, includeLinks, imageHandling) ==
    TrimEnd(TrimStart(Process(content, RuleTable(includeLinks, imageHandling)), {NL}),
            {SP, NL})

\* ---- frontmatter ----
EscapeQuotes(s) == ReplaceAll(s, DQ, <<BS, DQ>>)

FrontmatterLines(article, finalUrl) ==
    LET quoted(key, v) == <<key, DQ>> \o v \o <<DQ>>
        start   == << <<Dashes>> >>
        title   == IF Truthy(article.title)
                   THEN << quoted("title: ", EscapeQuotes(article.title[1])) >> ELSE <<>>
        url     == << quoted("url: ", finalUrl) >>
        author  == IF Truthy(article.byline)
                   THEN << quoted("author: ", EscapeQuotes(article.byline[1])) >> ELSE <<>>
        site    == IF Truthy(article.siteName)
                   THEN << quoted("site: ", EscapeQuotes(article.siteName[1])) >> ELSE <<>>
        excerpt == IF Truthy(article.excerpt)
                   THEN << quoted("excerpt: ",
                                  ReplaceAll(EscapeQuotes(article.excerpt[1]), NL, <<SP>>)) >>
                   ELSE <<>>
        date    == << quoted("date: ", <<DateTok>>) >>
    IN  start \o title \o url \o author \o site \o excerpt \o date \o << <<Dashes>>, <<>> >>

\* frontmatterLines.join('\n') + markdown
AddFrontmatter(article, finalUrl, markdown) ==
    Join(FrontmatterLines(article, finalUrl), NL) \o markdown

\* ---- errors and result records ----
Err(text, arg) == [message |-> text, arg |-> arg]
UrlRequired == Err("URL is required", 0)
FetchFailed(status) == Err("Failed to fetch URL: <status> <statusText>", status)
TimedOut(seconds) == Err("Request timed out after <timeout> seconds", seconds)
NetworkError == Err("fetch failed", 0)
ParseFailed == Err("Failed to parse article content from the page", 0)

SuccessRecord(url, art, md) ==
    [json |-> [url |-> url, title |-> art.title, byline |-> art.byline,
               excerpt |-> art.excerpt, siteName |-> art.siteName,
               markdown |-> md, contentLength |-> Len(md)]]
ErrorRecord(e) == [json |-> [error |-> e]]

\* ---- input domains ----
Options(t, links, img, fm) ==
    [timeout |-> t, includeLinks |-> links, imageHandling |-> img, includeFrontmatter |-> fm]
Article(title, byline, excerpt, siteName, content) ==
    [title |-> title, byline |-> byline, excerpt |-> excerpt, siteName |-> siteName,
     content |-> content]
\* page: what Readability makes of the document the url serves (None: parse() gives null)
Item(url, options, page) == [url |-> url, options |-> options, page |-> page]

PlainUrl == <<"u">>
DataUrl == <<"d", DQ>>              \* a data: URL, whose path keeps a double quote
RedirectedUrl == <<"r">>
NoArticle == Article(None, None, None, None, <<>>)
PlainArticle == Article(Some(<<"t">>), None, None, None, <<TextNode(<<"x">>)>>)

RECURSIVE StringsOfLen(_, _)
StringsOfLen(alphabet, n) ==
    IF n = 0 THEN {<<>>}
    ELSE {<<c>> \o s : c \in alphabet, s \in StringsOfLen(alphabet, n - 1)}
StringsUpTo(alphabet, n) == UNION {StringsOfLen(alphabet, k) : k \in 0..n}

\* items of the orchestration runs: every validation and option-default case
InvalidItems ==
    {Item(u, Options(None, None, None, None), None) : u \in {None, Some(<<>>)}}
ValidItems ==
    {Item(Some(PlainUrl), Options(t, None, None, None), Some(PlainArticle)) :
        t \in {None, Some(0), Some(1)}}
    \cup {Item(Some(PlainUrl), Options(Some(1), None, None, Some(TRUE)), Some(PlainArticle)),
          Item(Some(PlainUrl), Options(Some(1), None, None, None), None)}
BatchItems == InvalidItems \cup ValidItems

\* items of the frontmatter runs: metadata strings with quotes, backslashes and newlines
MetaChars == {"a", DQ, BS, NL}
RichMeta == {None} \cup {Some(v) : v \in StringsUpTo(MetaChars, MaxMetaLen)}
PlainMeta == {None, Some(<<>>), Some(<<DQ>>)}
FrontmatterItems ==
    {Item(Some(u), Options(Some(1), None, None, fm),
          Some(Article(title, byline, excerpt, site, content))) :
        u \in {PlainUrl, DataUrl}, fm \in {None, Some(TRUE)},
        title \in RichMeta, excerpt \in RichMeta,
        byline \in PlainMeta, site \in PlainMeta,
        content \in {<<>>, <<TextNode(<<"x">>)>>}}

\* items of the conversion runs: trees of text, images and anchors
Alts == {None, Some(<<>>), Some(<<SP>>), Some(<<SP, "k", SP>>)}
Leaves == {TextNode(<<"x">>)} \cup {ImgNode(alt, <<"s">>) : alt \in Alts}
Hrefs == {None, Some(<<"h">>)}
NodesOfSize(n) ==
    IF n = 1 THEN Leaves \cup {ANode(h, <<>>) : h \in Hrefs}
    ELSE {ANode(h, kids) : h \in Hrefs, kids \in StringsOfLen(Leaves, n - 1)}
RECURSIVE TreesOfSize(_)
TreesOfSize(n) ==
    IF n = 0 THEN {<<>>}
    ELSE UNION {{<<nd>> \o t : nd \in NodesOfSize(k), t \in TreesOfSize(n - k)} : k \in 1..n}
Trees == UNION {TreesOfSize(n) : n \in 0..MaxNodes}
ConversionItems ==
    {Item(Some(PlainUrl), Options(Some(1), links, img, None),
          Some(Article(None, None, None, None, content))) :
        links \in {None, Some(TRUE), Some(FALSE)},
        img \in {None, Some("include"), Some("altText"), Some("remove")},
        content \in Trees}

\* ---- state ----
VARIABLES
    items,            \* getInputData(), with each item's parameters and page
    continueOnFail,   \* continueOnFail()
    i,                \* the loop index (1-based)
    pc,               \* where execute stands
    returnData,       \* the records pushed so far
    result,           \* what execute has returned or thrown
    timers,           \* items whose setTimeout is pending
    aborted,          \* items whose AbortController has aborted
    elapsed,          \* seconds since the current item's fetch was started
    respUrl,          \* response.url
    finalUrl,         \* local finalUrl
    article,          \* local article
    markdown,         \* local markdown
    error,            \* the exception in flight
    trace,            \* per item: what was started or received for it, in order
    fail              \* per item: the error its processing threw

vars == <<items, continueOnFail, i, pc, returnData, result, timers, aborted, elapsed,
          respUrl, finalUrl, article, markdown, error, trace, fail>>

N == Len(items)
Timeout == TimeoutOf(items[i].options)

InitWith(batches) ==
    /\ items \in batches
    /\ continueOnFail \in BOOLEAN
    /\ i = 1
    /\ pc = "loop"
    /\ returnData = <<>>
    /\ result = [kind |-> "pending", data |-> <<>>, error |-> None]
    /\ timers = {}
    /\ aborted = {}
    /\ elapsed = 0
    /\ respUrl = <<>>
    /\ finalUrl = <<>>
    /\ article = None
    /\ markdown = <<>>
    /\ error = None
    /\ trace = [k \in 1..Len(items) |-> <<>>]
    /\ fail = [k \in 1..Len(items) |-> None]

Init == InitWith(StringsUpTo(BatchItems, MaxItems))
InitFrontmatter == InitWith(StringsOfLen(FrontmatterItems \cup BatchItems, 1))
InitConversion == InitWith(StringsOfLen(ConversionItems \cup BatchItems, 1))

\* ---- execute ----
\* an exception thrown while item i is processed, on its way to the outer catch
Throw(e) ==
    /\ error' = Some(e)
    /\ fail' = [fail EXCEPT ![i] = Some(e)]
    /\ pc' = "catch"

Started(what) == trace' = [trace EXCEPT ![i] = @ \o what]

\* Mutant: the loop stops at the first failed item instead of going on.
NextItemBreak ==
    /\ i' = IF error # None THEN N + 1 ELSE i + 1
    /\ pc' = "loop"
    /\ elapsed' = 0
    /\ respUrl' = <<>>
    /\ finalUrl' = <<>>
    /\ article' = None
    /\ markdown' = <<>>
    /\ error' = None

\* the end of one loop iteration: the locals go out of scope
NextItem ==
    /\ i' = i + 1
    /\ pc' = "loop"
    /\ elapsed' = 0
    /\ respUrl' = <<>>
    /\ finalUrl' = <<>>
    /\ article' = None
    /\ markdown' = <<>>
    /\ error' = None

\* Mutant: the timer is set before the url is checked.
ValidateAfterTimer ==
    /\ pc = "loop" /\ i <= N
    /\ ~Truthy(items[i].url)
    /\ timers' = timers \cup {i}
    /\ Started(<<"timer">>)
    /\ Throw(UrlRequired)
    /\ UNCHANGED <<items, continueOnFail, i, returnData, result, aborted, elapsed,
                   respUrl, finalUrl, article, markdown>>

\* if (!url) throw 'URL is required'
Validate ==
    /\ pc = "loop" /\ i <= N
    /\ ~Truthy(items[i].url)
    /\ Throw(UrlRequired)
    /\ UNCHANGED <<items, continueOnFail, i, returnData, result, timers, aborted, elapsed,
                   respUrl, finalUrl, article, markdown, trace>>

\* setTimeout(abort, timeout * 1000); fetch(url, {signal})
StartFetch ==
    /\ pc = "loop" /\ i <= N
    /\ Truthy(items[i].url)
    /\ timers' = timers \cup {i}
    /\ elapsed' = 0
    /\ finalUrl' = items[i].url[1]
    /\ Started(<<"timer", "request">>)
    /\ pc' = "awaitFetch"
    /\ UNCHANGED <<items, continueOnFail, i, returnData, result, aborted, respUrl,
                   article, markdown, error, fail>>

\* time passes while the fetch or the body read is awaited; a due timer fires first
Tick ==
    /\ pc \in {"awaitFetch", "awaitText"}
    /\ ~(i \in timers /\ elapsed >= Timeout)
    /\ \E e \in (Timeout - 1)..(Timeout + MaxOverrun) :
          /\ e > elapsed
          /\ i \in timers => e <= Timeout
          /\ elapsed' = e
    /\ UNCHANGED <<items, continueOnFail, i, pc, returnData, result, timers, aborted,
                   respUrl, finalUrl, article, markdown, error, trace, fail>>

\* the timer callback: controller.abort()
TimerFires ==
    /\ \E k \in timers :
          /\ k = i => elapsed >= Timeout
          /\ timers' = timers \ {k}
          /\ aborted' = aborted \cup {k}
    /\ UNCHANGED <<items, continueOnFail, i, pc, returnData, result, elapsed,
                   respUrl, finalUrl, article, markdown, error, trace, fail>>

\* the awaited promise rejects with AbortError: clearTimeout, throw 'timed out'
AbortRejects ==
    /\ pc \in {"awaitFetch", "awaitText"}
    /\ i \in aborted
    /\ timers' = timers \ {i}
    /\ Throw(TimedOut(Timeout))
    /\ UNCHANGED <<items, continueOnFail, i, returnData, result, aborted, elapsed,
                   respUrl, finalUrl, article, markdown, trace>>

\* Mutant: the timer stays armed until the body has been read.
ResponseOkKeepsTimer ==
    /\ pc = "awaitFetch"
    /\ i \notin aborted
    /\ \E u \in {items[i].url[1], RedirectedUrl} : respUrl' = u
    /\ Started(<<"response">>)
    /\ pc' = "awaitText"
    /\ UNCHANGED <<items, continueOnFail, i, returnData, result, timers, aborted, elapsed,
                   finalUrl, article, markdown, error, fail>>

\* fetch resolves with a 2xx response: clearTimeout, then await response.text()
ResponseOk ==
    /\ pc = "awaitFetch"
    /\ i \notin aborted
    /\ \E u \in {items[i].url[1], RedirectedUrl} : respUrl' = u
    /\ timers' = timers \ {i}
    /\ Started(<<"response">>)
    /\ pc' = "awaitText"
    /\ UNCHANGED <<items, continueOnFail, i, returnData, result, aborted, elapsed,
                   finalUrl, article, markdown, error, fail>>

\* fetch resolves with a non-2xx response: clearTimeout, throw 'Failed to fetch URL'
ResponseNotOk ==
    /\ pc = "awaitFetch"
    /\ i \notin aborted
    /\ timers' = timers \ {i}
    /\ \E status \in {404, 500} : Throw(FetchFailed(status))
    /\ UNCHANGED <<items, continueOnFail, i, returnData, result, aborted, elapsed,
                   respUrl, finalUrl, article, markdown, trace>>

\* fetch or response.text() rejects with a transport error: clearTimeout, rethrow
FetchRejects ==
    /\ pc \in {"awaitFetch", "awaitText"}
    /\ i \notin aborted
    /\ timers' = timers \ {i}
    /\ Throw(NetworkError)
    /\ UNCHANGED <<items, continueOnFail, i, returnData, result, aborted, elapsed,
                   respUrl, finalUrl, article, markdown, trace>>

\* response.text() resolves: html is set, finalUrl = response.url
BodyArrives ==
    /\ pc = "awaitText"
    /\ i \notin aborted
    /\ finalUrl' = respUrl
    /\ Started(<<"body">>)
    /\ pc' = "extract"
    /\ UNCHANGED <<items, continueOnFail, i, returnData, result, timers, aborted, elapsed,
                   respUrl, article, markdown, error, fail>>

\* new JSDOM(html); reader.parse() returns an article
ExtractOk ==
    /\ pc = "extract"
    /\ items[i].page # None
    /\ article' = items[i].page
    /\ Started(<<"extract">>)
    /\ pc' = "convert"
    /\ UNCHANGED <<items, continueOnFail, i, returnData, result, timers, aborted, elapsed,
                   respUrl, finalUrl, markdown, error, fail>>

\* Mutant: the null article is not checked and conversion goes on.
ExtractFailsUnchecked ==
    /\ pc = "extract"
    /\ items[i].page = None
    /\ article' = Some(NoArticle)
    /\ Started(<<"extract">>)
    /\ fail' = [fail EXCEPT ![i] = Some(ParseFailed)]
    /\ pc' = "convert"
    /\ UNCHANGED <<items, continueOnFail, i, returnData, result, timers, aborted, elapsed,
                   respUrl, finalUrl, markdown, error>>

\* reader.parse() returns null: throw 'Failed to parse article content'
ExtractFails ==
    /\ pc = "extract"
    /\ items[i].page = None
    /\ Started(<<"extract">>)
    /\ Throw(ParseFailed)
    /\ UNCHANGED <<items, continueOnFail, i, returnData, result, timers, aborted, elapsed,
                   respUrl, finalUrl, article, markdown>>

\* new TurndownService, addRule per option, turndown(article.content)
Convert ==
    /\ pc = "convert"
    /\ markdown' = Turndown(article[1].content, IncludeLinksOf(items[i].options),
                            ImageHandlingOf(items[i].options))
    /\ Started(<<"convert">>)
    /\ pc' = IF IncludeFrontmatterOf(items[i].options) THEN "compose" ELSE "push"
    /\ UNCHANGED <<items, continueOnFail, i, returnData, result, timers, aborted, elapsed,
                   respUrl, finalUrl, article, error, fail>>

\* if (includeFrontmatter) markdown = frontmatterLines.join('\n') + markdown
Compose ==
    /\ pc = "compose"
    /\ markdown' = AddFrontmatter(article[1], finalUrl, markdown)
    /\ Started(<<"compose">>)
    /\ pc' = "push"
    /\ UNCHANGED <<items, continueOnFail, i, returnData, result, timers, aborted, elapsed,
                   respUrl, finalUrl, article, error, fail>>

\* returnData.push({json: {url, title, ..., markdown, contentLength}})
Push ==
    /\ pc = "push"
    /\ returnData' = Append(returnData, SuccessRecord(finalUrl, article[1], markdown))
    /\ Started(<<"emit">>)
    /\ NextItem
    /\ UNCHANGED <<items, continueOnFail, result, timers, aborted, fail>>

\* catch (error) with continueOnFail(): push {error: message}; continue
CatchContinue ==
    /\ pc = "catch"
    /\ continueOnFail
    /\ returnData' = Append(returnData, ErrorRecord(error[1]))
    /\ NextItem
    /\ UNCHANGED <<items, continueOnFail, result, timers, aborted, trace, fail>>

\* Mutant: without continueOnFail() the error is dropped and the loop goes on.
CatchSwallow ==
    /\ pc = "catch"
    /\ ~continueOnFail
    /\ NextItem
    /\ UNCHANGED <<items, continueOnFail, returnData, result, timers, aborted, trace, fail>>

\* catch (error) without continueOnFail(): throw error
CatchRethrow ==
    /\ pc = "catch"
    /\ ~continueOnFail
    /\ result' = [kind |-> "thrown", data |-> <<>>, error |-> error]
    /\ pc' = "thrown"
    /\ UNCHANGED <<items, continueOnFail, i, returnData, timers, aborted, elapsed,
                   respUrl, finalUrl, article, markdown, error, trace, fail>>

\* the loop is over: return [returnData]
Return ==
    /\ pc = "loop" /\ i > N
    /\ result' = [kind |-> "returned", data |-> returnData, error |-> None]
    /\ pc' = "returned"
    /\ UNCHANGED <<items, continueOnFail, i, returnData, timers, aborted, elapsed,
                   respUrl, finalUrl, article, markdown, error, trace, fail>>

Next ==
    \/ Validate
    \/ StartFetch
    \/ Tick
    \/ TimerFires
    \/ AbortRejects
    \/ ResponseOk
    \/ ResponseNotOk
    \/ FetchRejects
    \/ BodyArrives
    \/ ExtractOk
    \/ ExtractFails
    \/ Convert
    \/ Compose
    \/ Push
    \/ CatchContinue
    \/ CatchRethrow
    \/ Return

Spec == Init /\ [][Next]_vars
SpecFrontmatter == InitFrontmatter /\ [][Next]_vars
SpecConversion == InitConversion /\ [][Next]_vars

\* ---- what the claims speak of ----
IsErrorRecord(r) == "error" \in DOMAIN r.json
\* item k has been processed to its end
Finished(k) == k < i \/ (k = i /\ pc \in {"catch", "thrown"})
\* the Markdown body of item k, and the record its success yields with response url u
BodyOf(k) ==
    Turndown(items[k].page[1].content, IncludeLinksOf(items[k].options),
             ImageHandlingOf(items[k].options))
ExpectedSuccess(k, u) ==
    LET md == IF IncludeFrontmatterOf(items[k].options)
              THEN AddFrontmatter(items[k].page[1], u, BodyOf(k)) ELSE BodyOf(k)
    IN  SuccessRecord(u, items[k].page[1], md)
FetchStages == <<"timer", "request", "response", "body">>
StagesOf(k) ==
    FetchStages \o <<"extract", "convert">>
    \o (IF IncludeFrontmatterOf(items[k].options) THEN <<"compose">> ELSE <<>>)
    \o <<"emit">>
IsPrefix(p, q) == Len(p) <= Len(q) /\ SubSeq(q, 1, Len(p)) = p
Count(s, c) == Cardinality({p \in 1..Len(s) : s[p] = c})

\* C1: with continue-on-failure, execute returns one record per input item, in input
\* order: the success record of an item whose stages all succeeded, {error: message}
\* of its failure otherwise; every item is processed whatever happened to those before.
C1_BestEffortRecords ==
    continueOnFail =>
        /\ Len(returnData) = i - 1
        /\ \A k \in 1..Len(returnData) :
              IF fail[k] # None
              THEN returnData[k] = ErrorRecord(fail[k][1])
              ELSE /\ ~IsErrorRecord(returnData[k])
                   /\ \E u \in {items[k].url[1], RedirectedUrl} :
                         returnData[k] = ExpectedSuccess(k, u)
        /\ pc = "returned" =>
              /\ result = [kind |-> "returned", data |-> returnData, error |-> None]
              /\ Len(result.data) = N
              /\ \A k \in 1..N : Finished(k)
        /\ pc # "thrown"

C1_Witness ==
    /\ continueOnFail /\ pc = "returned" /\ N = 2
    /\ fail[1] # None /\ fail[2] = None
    /\ IsErrorRecord(result.data[1]) /\ ~IsErrorRecord(result.data[2])

\* C2: without continue-on-failure, the first failing item ends execute at once with
\* that item's error: nothing is started for a later item and no record is returned.
C2_AbortOnFirstFailure ==
    ~continueOnFail =>
        /\ \A k \in 1..N :
              fail[k] # None =>
                  /\ k = i /\ pc \in {"catch", "thrown"}
                  /\ \A j \in 1..N : j # k => fail[j] = None
                  /\ \A j \in (k + 1)..N : trace[j] = <<>> /\ j \notin timers
        /\ pc = "thrown" =>
              /\ fail[i] # None
              /\ result = [kind |-> "thrown", data |-> <<>>, error |-> fail[i]]
        /\ pc # "thrown" => result.error = None
        /\ pc = "returned" => \A k \in 1..N : fail[k] = None

C2_WitnessEarlierSuccessDropped ==
    /\ ~continueOnFail /\ pc = "thrown" /\ i = 2
    /\ Len(returnData) = 1 /\ result.data = <<>>

\* C3: an item whose url is missing or empty fails with 'URL is required', and no timer,
\* request, extraction or conversion is ever started for it.
C3_EmptyUrlNeverFetched ==
    \A k \in 1..N :
        ~Truthy(items[k].url) =>
            /\ trace[k] = <<>>
            /\ k \notin timers /\ k \notin aborted
            /\ Finished(k) => fail[k] = Some(UrlRequired)
            /\ (k = i /\ pc # "loop") => pc \in {"catch", "thrown"}

C3_Witness ==
    /\ N = 2 /\ pc = "returned"
    /\ items[1].url = None /\ items[2].url = Some(<<>>)
    /\ returnData = <<ErrorRecord(UrlRequired), ErrorRecord(UrlRequired)>>

\* C4 (as claimed): the fetch of an item, the read of its body included, never waits
\* longer than the configured timeout, and a timeout error carries the configured seconds.
C4_FetchNeverOutlastsTimeout ==
    /\ pc \in {"awaitFetch", "awaitText", "extract"} => elapsed <= Timeout
    /\ \A k \in 1..N :
          (fail[k] # None /\ fail[k][1].message = TimedOut(0).message)
              => fail[k][1].arg = TimeoutOf(items[k].options)

\* C10: the stages of an item run once each in the order fetch, extract, convert,
\* compose, emit; one request per fetched item; a failed stage ends the item.
C10_StageOrder ==
    \A k \in 1..N :
        /\ IsPrefix(trace[k], StagesOf(k))
        /\ Count(trace[k], "request") <= 1
        /\ (Truthy(items[k].url) /\ (Finished(k) \/ (k = i /\ pc # "loop")))
              => Count(trace[k], "request") = 1
        /\ (k = i /\ pc \in {"extract", "convert", "compose", "push"})
              => trace[k] = SubSeq(StagesOf(k), 1, Len(trace[k]))
                 /\ Len(trace[k]) >= Len(FetchStages)
        /\ (k = i /\ pc = "convert") => article # None /\ trace[k][Len(trace[k])] = "extract"
        /\ (k = i /\ pc = "compose") => trace[k][Len(trace[k])] = "convert"
        /\ (k = i /\ pc = "push") => trace[k][Len(trace[k])] \in {"convert", "compose"}
        /\ fail[k] # None =>
              /\ Finished(k)
              /\ Count(trace[k], "emit") = 0
              /\ trace[k] = CASE fail[k][1] = UrlRequired -> <<>>
                              [] fail[k][1] = ParseFailed -> FetchStages \o <<"extract">>
                              [] OTHER -> SubSeq(FetchStages, 1, Len(trace[k]))
              /\ Len(trace[k]) <= Len(FetchStages) + 1
        /\ (k < i /\ fail[k] = None) => trace[k] = StagesOf(k)
        /\ (k <= Len(returnData) /\ ~IsErrorRecord(returnData[k])) => trace[k] = StagesOf(k)

C10_Witness ==
    /\ N = 2 /\ pc = "returned"
    /\ fail[1] = Some(ParseFailed) /\ trace[1] = FetchStages \o <<"extract">>
    /\ IncludeFrontmatterOf(items[2].options)
    /\ trace[2] = FetchStages \o <<"extract", "convert", "compose", "emit">>

IsTimedOut(e) == e # None /\ e[1].message = TimedOut(0).message

\* C11: the timer of an item is cancelled on every exit from the fetch step: it is
\* pending only while the fetch of that item is awaited, the abort cannot fire once
\* the response has arrived, a timeout is only ever reported from the wait for the
\* response, and no timer is pending when the next item starts or execute ends.
C11_TimerCancelledOnExit ==
    /\ timers \subseteq {i}
    /\ timers # {} => pc = "awaitFetch"
    /\ aborted \subseteq 1..N
    /\ pc \in {"awaitText", "extract", "convert", "compose", "push"} =>
          /\ i \notin timers /\ i \notin aborted
          /\ fail[i] = None
    /\ pc \in {"loop", "catch", "returned", "thrown"} => timers = {}
    /\ \A k \in 1..N :
          /\ IsTimedOut(fail[k]) =>
                /\ trace[k] = <<"timer", "request">>
                /\ k \in aborted
          /\ k \in aborted => IsTimedOut(fail[k]) \/ (k = i /\ pc = "awaitFetch")

C11_Witness ==
    /\ N = 2 /\ i = 2 /\ pc = "awaitText"
    /\ IsTimedOut(fail[1])
    /\ elapsed > Timeout
    /\ timers = {} /\ aborted = {1}

\* ---- frontmatter claims (SpecFrontmatter) ----
RECURSIVE SplitFrom(_, _)
SplitFrom(s, cur) ==
    IF s = <<>> THEN <<cur>>
    ELSE IF Head(s) = NL THEN <<cur>> \o SplitFrom(Tail(s), <<>>)
    ELSE SplitFrom(Tail(s), Append(cur, Head(s)))
SplitLines(s) == SplitFrom(s, <<>>)

\* item i has its frontmatter composed and is about to be pushed
Composed == pc = "push" /\ IncludeFrontmatterOf(items[i].options)
HasClosing(L) == \E j \in 2..Len(L) : L[j] = <<Dashes>>
\* the closing fence: the first `---` line after the opening one
ClosingAt(L) ==
    CHOOSE j \in 2..Len(L) : L[j] = <<Dashes>> /\ \A m \in 2..(j - 1) : L[m] # <<Dashes>>
KeyLines(L, j, key) == {m \in 2..(j - 1) : L[m] # <<>> /\ L[m][1] = key}
StringKeys == {"title: ", "url: ", "author: ", "site: ", "excerpt: "}
Present(o) == o # None
NonEmptyString(o) == o # None /\ Len(o[1]) > 0

\* C5 (as claimed): the closing `---` line is followed by one empty line and then by
\* the Markdown body.
C5_OneBlankLineBeforeBody ==
    Composed =>
        LET L == SplitLines(markdown) IN
        /\ HasClosing(L)
        /\ LET j == ClosingAt(L) IN
           /\ j + 1 <= Len(L)
           /\ L[j + 1] = <<>>
           /\ Join(SubSeq(L, j + 2, Len(L)), NL) = BodyOf(i)

FrontmatterEntries(has(_)) ==
    /\ Composed =>
        LET L == SplitLines(markdown)
            a == article[1]
            n(key, on) == IF on THEN 1 ELSE 0
        IN
        /\ L[1] = <<Dashes>>
        /\ HasClosing(L)
        /\ LET j == ClosingAt(L) IN
           /\ Join(SubSeq(L, j + 1, Len(L)), NL) = BodyOf(i)
           /\ \E m \in 2..(j - 1) : L[m] = <<"url: ", DQ>> \o finalUrl \o <<DQ>>
           /\ Cardinality(KeyLines(L, j, "url: ")) = 1
           /\ Cardinality(KeyLines(L, j, "date: ")) = 1
           /\ Cardinality(KeyLines(L, j, "title: ")) = n("title", has(a.title))
           /\ Cardinality(KeyLines(L, j, "author: ")) = n("author", has(a.byline))
           /\ Cardinality(KeyLines(L, j, "site: ")) = n("site", has(a.siteName))
           /\ Cardinality(KeyLines(L, j, "excerpt: ")) = n("excerpt", has(a.excerpt))
    /\ (pc = "push" /\ ~IncludeFrontmatterOf(items[i].options)) => markdown = BodyOf(i)

RECURSIVE BackslashesBefore(_, _)
BackslashesBefore(line, p) ==
    IF p > 1 /\ line[p - 1] = BS THEN 1 + BackslashesBefore(line, p - 1) ELSE 0
UnescapedQuotes(line) ==
    {p \in 1..Len(line) : line[p] = DQ /\ BackslashesBefore(line, p) % 2 = 0}

\* C7 (as claimed): every field of the block occupies one line, and on the line of a
\* string value the only unescaped double quotes are the two delimiters.
C7_QuotedOnOneLine ==
    Composed =>
        LET L == SplitLines(markdown) IN
        /\ HasClosing(L)
        /\ \A m \in 2..(ClosingAt(L) - 1) :
              /\ L[m] # <<>>
              /\ L[m][1] \in StringKeys \cup {"date: "}
              /\ L[m][1] \in StringKeys => UnescapedQuotes(L[m]) = {2, Len(L[m])}

\* ---- conversion claims (SpecConversion) ----
RECURSIVE StripAnchors(_)
StripAnchors(nodes) ==
    IF nodes = <<>> THEN <<>>
    ELSE (IF Head(nodes).tag = "a" THEN StripAnchors(Head(nodes).kids) ELSE <<Head(nodes)>>)
         \o StripAnchors(Tail(nodes))
RECURSIVE WithoutImages(_)
WithoutImages(nodes) ==
    IF nodes = <<>> THEN <<>>
    ELSE (IF Head(nodes).tag = "img" THEN <<>>
          ELSE <<[Head(nodes) EXCEPT !.kids = WithoutImages(@)]>>)
         \o WithoutImages(Tail(nodes))
ImagesOf(nodes) == SelectSeq(StripAnchors(nodes), LAMBDA nd : nd.tag = "img")
TextOf(nodes) == SelectSeq(StripAnchors(nodes), LAMBDA nd : nd.tag = "text")

HasLinkSyntax(s) ==
    \E a, b, c \in 1..Len(s) :
        a < b /\ b + 1 < c /\ s[a] = LB /\ s[b] = RB /\ s[b + 1] = LP /\ s[c] = RP

Converted == pc = "push" /\ ~IncludeFrontmatterOf(items[i].options)
LinksOff == Converted /\ ~IncludeLinksOf(items[i].options)

\* C8 (as claimed): with includeLinks = false the output holds no [...](...) and keeps
\* the text of every link, whatever the other options and the tree.
C8_NoLinkSyntax ==
    LinksOff =>
        /\ ~HasLinkSyntax(markdown)
        /\ Count(markdown, "x") = Len(TextOf(article[1].content))

\* C8 (amended): with includeLinks = false every anchor is rendered as exactly its
\* converted content: the output is that of the tree with each anchor replaced by its
\* children, no href reaches it, and all text is kept.
C8_AnchorsRenderContentOnly ==
    LinksOff =>
        /\ markdown = Turndown(StripAnchors(article[1].content), TRUE,
                               ImageHandlingOf(items[i].options))
        /\ Count(markdown, "h") = 0
        /\ Count(markdown, "x") = Len(TextOf(article[1].content))

C8_Witness ==
    /\ LinksOff
    /\ ImageHandlingOf(items[i].options) = "include"
    /\ article[1].content =
          <<ANode(Some(<<"h">>), <<ImgNode(Some(<<SP, "k", SP>>), <<"s">>),
                                   TextNode(<<"x">>)>>)>>
    /\ HasLinkSyntax(markdown)

Whitespace == {SP, NL}
\* the label an image shows in altText mode: its alt without the blanks around it
AltLabel(alt) ==
    IF alt = None \/ \A p \in 1..Len(alt[1]) : alt[1][p] \in Whitespace THEN <<>>
    ELSE LET a == alt[1]
             first == CHOOSE p \in 1..Len(a) :
                         a[p] \notin Whitespace /\ \A q \in 1..(p - 1) : a[q] \in Whitespace
             last == CHOOSE p \in 1..Len(a) :
                         a[p] \notin Whitespace /\ \A q \in (p + 1)..Len(a) : a[q] \in Whitespace
         IN  <<SP>> \o SubSeq(a, first, last)
\* the piece of s from position p up to the first occurrence of `stop` after it
Upto(s, p, stop) ==
    SubSeq(s, p, CHOOSE q \in p..Len(s) : s[q] = stop /\ \A r \in p..(q - 1) : s[r] # stop)
Positions(s, c) == {p \in 1..Len(s) : s[p] = c}
Nth(S, n) == CHOOSE p \in S : Cardinality({q \in S : q < p}) = n - 1

\* C9: remove: an image contributes nothing and the output has no image marker;
\* altText: each image becomes the placeholder with its trimmed alt, or the unlabeled
\* placeholder when the alt is missing or blank, and no src reaches the output;
\* include: each image is rendered by the default rule as ![alt](src).
C9_ImageHandling ==
    Converted =>
        LET ih == ImageHandlingOf(items[i].options)
            content == article[1].content
            imgs == ImagesOf(content)
            marks == Positions(markdown, IF ih = "altText" THEN ImgLabel ELSE Bang)
        IN
        /\ ih = "remove" =>
              /\ Count(markdown, Bang) = 0 /\ Count(markdown, ImgLabel) = 0
              /\ Count(markdown, "s") = 0 /\ Count(markdown, "k") = 0
              /\ markdown = Turndown(WithoutImages(content),
                                     IncludeLinksOf(items[i].options), ih)
        /\ ih = "altText" =>
              /\ Count(markdown, "s") = 0 /\ Count(markdown, Bang) = 0
              /\ Cardinality(marks) = Len(imgs)
              /\ \A n \in 1..Len(imgs) :
                    LET p == Nth(marks, n) IN
                    /\ p > 1 /\ markdown[p - 1] = LB
                    /\ Upto(markdown, p, RB) = <<ImgLabel>> \o AltLabel(imgs[n].alt) \o <<RB>>
        /\ ih = "include" =>
              /\ Count(markdown, ImgLabel) = 0
              /\ Cardinality(marks) = Len(imgs)
              /\ \A n \in 1..Len(imgs) :
                    Upto(markdown, Nth(marks, n), RP) =
                        <<Bang, LB>> \o (IF imgs[n].alt = None THEN <<>> ELSE imgs[n].alt[1])
                        \o <<RB, LP>> \o imgs[n].src \o <<RP>>

C9_Witness ==
    /\ Converted
    /\ ImageHandlingOf(items[i].options) = "altText"
    /\ article[1].content =
          <<ImgNode(Some(<<SP, "k", SP>>), <<"s">>), TextNode(<<"x">>),
            ImgNode(Some(<<SP>>), <<"s">>)>>
    /\ markdown = <<LB, ImgLabel, SP, "k", RB, "x", LB, ImgLabel, RB>>

====
